---------------------------- MODULE Spec2Model ----------------------------
(***************************************************************************)
(* find-org-pulls: one fetcher goroutine per organization pages through    *)
(* the API and streams rows over an unbuffered channel; FindOrgPulls       *)
(* drains rows and done signals, sorts the rows, prints them with age      *)
(* bucket labels, and prints a summary.  The model follows                 *)
(* src/main.go, FindOrgPulls / getRows / getBucketLabel (lines 337-611).   *)
(***************************************************************************)
EXTENDS Integers, Sequences, FiniteSets, TLC

VARIABLES
    token,       \* os.Getenv("GITHUB_TOKEN")
    clock,       \* wall clock, in ticks
    cpc,         \* position of FindOrgPulls
    spawned,     \* goroutines started by the spawn loop
    rows,        \* var rows []*Row
    done,        \* done signals received
    idx,         \* position of the print loop in rows
    label,       \* label returned by the last getBucketLabel call
    out,         \* lines printed by FindOrgPulls
    summary,     \* the summary lines, once printed
    buckets,     \* package-level var buckets
    fpc,         \* position of each fetcher goroutine
    now,         \* getRows: now := time.Now()
    pageNumber,  \* getRows: pageNumber
    after,       \* getRows: vars["after"]
    pending,     \* PR nodes of the current page not yet sent
    edgeCount,   \* len(repos.Edges) of the current page
    err,         \* value returned by getRows
    requested,   \* client.Do calls made by each fetcher
    received,    \* kind of the last response each fetcher got
    produced,    \* createdAt of the PR nodes the API served each fetcher in its pages
    readAt,      \* clock when the page a fetcher is working on was read
    calls        \* calls of FindOrgPulls made in this process

vars == <<token, clock, cpc, spawned, rows, done, idx, label, out, summary,
          buckets, fpc, now, pageNumber, after, pending, edgeCount, err,
          requested, received, produced, readAt, calls>>

collectorVars == <<cpc, spawned, rows, done, idx, label, out, summary, buckets>>

fetcherVars == <<fpc, now, pageNumber, after, pending, edgeCount, err,
                 requested, received, produced, readAt>>

----------------------------------------------------------------------------
(* Bounds of the model. *)

MaxPages == 2          \* pages an organization has at most
MaxRows == 2           \* pull requests the API serves in one run, all organizations together
MaxTick == 1           \* ticks the clock advances while fetchers start
MaxReportRows == 3     \* rows of a report whose print pass is checked on its own
TicksPerSecond == 2    \* resolution of the clock
MaxCalls == 2          \* calls of FindOrgPulls in one process

----------------------------------------------------------------------------
(* Time.  A tick is 1/TicksPerSecond of a second; time.Duration and        *)
(* time.Time carry sub-second precision.                                   *)

Second == TicksPerSecond
Hour == 3600 * Second
Day == Hour * 24

Now0 == 500 * Day

\* time.Time.Unix(): whole seconds since the epoch, the fraction dropped.
Unix(t) == t \div TicksPerSecond

\* time.Time.Sub
Sub(t, u) == t - u

\* int(row.Age.Hours()/24): truncation toward zero.
Days(age) == IF age >= 0 THEN age \div Day ELSE -((-age) \div Day)

PageSize == 100

\* orgNames := []string{"gdbu", "hatch1fy", ...}: the first two of the five.
orgNames == << "gdbu", "hatch1fy" >>

Orgs == { orgNames[i] : i \in 1..Len(orgNames) }

NoError == "nil"


----------------------------------------------------------------------------
(* Age buckets: var buckets and getBucketLabel. *)

InitBuckets ==
    << [olderThan |-> 365 * Day,    label |-> "one year",     found |-> FALSE, count |-> 0],
       [olderThan |-> 6 * 30 * Day, label |-> "six months",   found |-> FALSE, count |-> 0],
       [olderThan |-> 3 * 30 * Day, label |-> "three months", found |-> FALSE, count |-> 0],
       [olderThan |-> 30 * Day,     label |-> "one month",    found |-> FALSE, count |-> 0],
       [olderThan |-> 7 * Day,      label |-> "one week",     found |-> FALSE, count |-> 0] >>

\* The threshold test letting an age equal to the threshold through.
NotExceededStrict(age, olderThan) == age < olderThan

\* if age <= bucket.olderThan { continue }
NotExceeded(age, olderThan) == age <= olderThan

\* A bucket whose found flag is never consulted.
AnnouncedNever(bucket) == FALSE

\* if bucket.found { return "" }
Announced(bucket) == bucket.found

\* A range loop that goes on to the smaller thresholds after counting.
RECURSIVE BucketWalkOn(_, _, _)
BucketWalkOn(bs, age, i) ==
    IF i > Len(bs)
    THEN [buckets |-> bs, label |-> ""]
    ELSE IF age <= bs[i].olderThan
         THEN BucketWalkOn(bs, age, i + 1)
         ELSE BucketWalkOn([bs EXCEPT ![i].count = @ + 1, ![i].found = TRUE], age, i + 1)

\* The found flag left as it is.
MarkFoundNot(bs, i) == bs

\* bucket.found = true
MarkFound(bs, i) == [bs EXCEPT ![i].found = TRUE]

\* The body of the range loop from bucket i on: the buckets after the call
\* and the string returned.
RECURSIVE BucketWalk(_, _, _)
BucketWalk(bs, age, i) ==
    IF i > Len(bs)
    THEN [buckets |-> bs, label |-> ""]
    ELSE IF NotExceeded(age, bs[i].olderThan)
         THEN BucketWalk(bs, age, i + 1)
         ELSE LET counted == [bs EXCEPT ![i].count = @ + 1]
              IN  IF Announced(bs[i])
                  THEN [buckets |-> counted, label |-> ""]
                  ELSE [buckets |-> MarkFound(counted, i),
                        label |-> "Older than " \o bs[i].label]

getBucketLabel(bs, age) == BucketWalk(bs, age, 1)

----------------------------------------------------------------------------
(* API responses. *)

\* createdAt values of the pull requests the API serves to the fetchers.
ApiCreatedAt == { Now0 - 365 * Day, Now0 - 3 * Day }

\* Sequences over S of length at most n.
RECURSIVE SeqsUpTo(_, _)
SeqsUpTo(S, n) ==
    IF n = 0 THEN { <<>> }
    ELSE LET shorter == SeqsUpTo(S, n - 1)
         IN  shorter \cup { Append(s, x) : s \in { t \in shorter : Len(t) = n - 1 }, x \in S }

\* repos.Nodes: at most two repositories, each a list of pull requests,
\* holding at most n pull requests together.
NodesUpTo(n) ==
    LET prs == SeqsUpTo(ApiCreatedAt, n)
    IN  { <<>> } \cup { << s >> : s \in prs }
        \cup { p \in prs \X prs : Len(p[1]) + Len(p[2]) <= n }

\* Edge counts a page may carry.
EdgeCounts == { 0, PageSize - 1, PageSize, PageSize + 1 }

\* repos.Edges of a page with n edges: the cursors are opaque and distinct.
Edges(page, n) == [ i \in 1..n |-> [cursor |-> << page, i >>] ]

FailureKinds == { "transport", "status", "body", "unmarshalError", "graphql", "unmarshalResponse" }

\* What a request may bring back, with room for n more pull requests; a
\* further full page only when more is set.  A GraphQL error response may
\* carry partial data beside its error list.
Responses(n, more) ==
    { [kind |-> k, nodes |-> <<>>, edges |-> 0] : k \in FailureKinds }
    \cup { [kind |-> "graphql", nodes |-> nd, edges |-> 0] : nd \in NodesUpTo(n) }
    \cup { [kind |-> "ok", nodes |-> nd, edges |-> e] :
             nd \in NodesUpTo(n),
             e \in IF more THEN EdgeCounts ELSE EdgeCounts \ { PageSize } }

\* The checks without the one of errRes.Errors.
FirstErrorSkippingGraphQL(resp) ==
    IF resp.kind \in { "ok", "graphql" } THEN NoError ELSE resp.kind

\* The error the checks between client.Do and the second Unmarshal return.
FirstError(resp) == IF resp.kind = "ok" THEN NoError ELSE resp.kind

\* for _, repo := range repos.Nodes { for _, pr := range repo.PullRequests.Nodes
RECURSIVE Flatten(_)
Flatten(nodes) == IF nodes = <<>> THEN <<>> ELSE Head(nodes) \o Flatten(Tail(nodes))

\* The last page taken to be a page of fewer edges than asked for.
LastPageBelow(n) == n < PageSize

\* if len(repos.Edges) != pageSize { return nil }
LastPage(n) == n # PageSize

\* The cursor of the first edge kept instead of the last.
OverwriteCursorFirst(cur, edges, lo, hi) == IF lo > hi THEN cur ELSE edges[lo].cursor

\* for _, cursor := range repos.Edges { vars["after"] = cursor.Cursor }
\* over the edges lo..hi, in order: the first half, then the second.
RECURSIVE OverwriteCursor(_, _, _, _)
OverwriteCursor(cur, edges, lo, hi) ==
    IF lo > hi THEN cur
    ELSE IF lo = hi THEN edges[lo].cursor
    ELSE LET mid == (lo + hi) \div 2
         IN  OverwriteCursor(OverwriteCursor(cur, edges, lo, mid), edges, mid + 1, hi)

NoCursor == << >>

----------------------------------------------------------------------------
(* Sorting: sort.Slice is not stable; any arrangement the comparison       *)
(* accepts may come out.                                                   *)

\* rows[i].CreatedDate.Unix() < rows[j].CreatedDate.Unix()
Less(a, b) == Unix(a.createdDate) < Unix(b.createdDate)

Arrangements(s) ==
    { [ i \in 1..Len(s) |-> s[f[i]] ] : f \in Permutations(1..Len(s)) }

SortSlice(s) ==
    { t \in Arrangements(s) : \A i \in 1..Len(t) : \A j \in 1..Len(t) : i < j => ~Less(t[j], t[i]) }

\* The sum leaving out the last bucket.
RECURSIVE SumCountsShort(_, _)
SumCountsShort(bs, i) == IF i >= Len(bs) THEN 0 ELSE bs[i].count + SumCountsShort(bs, i + 1)

RECURSIVE SumCounts(_, _)
SumCounts(bs, i) == IF i > Len(bs) THEN 0 ELSE bs[i].count + SumCounts(bs, i + 1)

\* Pull requests served so far, all organizations together.
RECURSIVE Served(_, _)
Served(f, S) ==
    IF S = {} THEN 0 ELSE LET x == CHOOSE y \in S : TRUE IN Len(f[x]) + Served(f, S \ {x})

NoSummary == [printed |-> FALSE, total |-> 0, counts |-> << >>, newer |-> 0]

----------------------------------------------------------------------------
(* Initial state. *)

Init ==
    /\ token \in { "", "secret" }
    /\ clock = Now0
    /\ cpc = "start"
    /\ spawned = 0
    /\ rows = << >>
    /\ done = 0
    /\ idx = 1
    /\ label = ""
    /\ out = << >>
    /\ summary = NoSummary
    /\ buckets = InitBuckets
    /\ fpc = [o \in Orgs |-> "idle"]
    /\ now = [o \in Orgs |-> 0]
    /\ pageNumber = [o \in Orgs |-> 1]
    /\ after = [o \in Orgs |-> NoCursor]
    /\ pending = [o \in Orgs |-> << >>]
    /\ edgeCount = [o \in Orgs |-> 0]
    /\ err = [o \in Orgs |-> NoError]
    /\ requested = [o \in Orgs |-> 0]
    /\ received = [o \in Orgs |-> "none"]
    /\ produced = [o \in Orgs |-> << >>]
    /\ readAt = [o \in Orgs |-> 0]
    /\ calls = 1

\* Time passes.  The clock is read by StartFetcher alone, so a tick after
\* the last fetcher has read it changes nothing the program sees.
Tick ==
    /\ clock < Now0 + MaxTick
    /\ \E o \in Orgs : fpc[o] \in { "idle", "start" }
    /\ clock' = clock + 1
    /\ UNCHANGED <<token, calls, collectorVars, fetcherVars>>


----------------------------------------------------------------------------
(* FindOrgPulls. *)

NoRow == [org |-> "", createdDate |-> 0, age |-> 0]

Line(kind, text, days, row) == [kind |-> kind, text |-> text, days |-> days, row |-> row]

\* A token test that never finds the token missing.
NoTokenNever(t) == FALSE

\* if token == ""
NoToken(t) == t = ""

\* token := os.Getenv("GITHUB_TOKEN"); if token == "" { ...; return }
CheckToken ==
    /\ cpc = "start"
    /\ IF NoToken(token)
       THEN /\ out' = Append(out, Line("message", "Failed to get github token", 0, NoRow))
            /\ cpc' = "done"
       ELSE /\ out' = out
            /\ cpc' = "spawn"
    /\ UNCHANGED <<token, calls, clock, spawned, rows, done, idx, label, summary, buckets,
                   fetcherVars>>

\* for _, org := range orgNames { go func() { ... }() }
Spawn ==
    /\ cpc = "spawn"
    /\ spawned < Len(orgNames)
    /\ spawned' = spawned + 1
    /\ fpc' = [fpc EXCEPT ![orgNames[spawned + 1]] = "start"]
    /\ cpc' = IF spawned + 1 = Len(orgNames) THEN "drain" ELSE "spawn"
    /\ UNCHANGED <<token, calls, clock, rows, done, idx, label, out, summary, buckets,
                   now, pageNumber, after, pending, edgeCount, err, requested,
                   received, produced, readAt>>

\* The drain loop leaving one done signal early.
DrainCondEarly(d) == d < Len(orgNames) - 1

\* The drain loop waiting for one done signal too many.
DrainCondLate(d) == d <= Len(orgNames)

\* for done < len(orgNames)
DrainCond(d) == d < Len(orgNames)

\* The range loops taken to be over with one pull request still to send.
RangeDoneEarly(q) == Len(q) <= 1

\* for _, repo := range repos.Nodes { for _, pr := range ... }: the loops
\* are over when no pull request of the page is left.
RangeDone(q) == q = << >>

\* A row aged against the clock at which its page was read.
MakeRowAtRead(o, createdAt) ==
    [org |-> o, createdDate |-> createdAt, age |-> Sub(readAt[o], createdAt)]

\* row := &Row{...}: age := now.Sub(c)
MakeRow(o, createdAt) ==
    [org |-> o, createdDate |-> createdAt, age |-> Sub(now[o], createdAt)]

\* getRows returns e to the goroutine, which logs it and goes on to send
\* its done signal; the locals of getRows are gone.
Return(o, e) ==
    /\ fpc' = [fpc EXCEPT ![o] = "returned"]
    /\ err' = [err EXCEPT ![o] = e]
    /\ now' = [now EXCEPT ![o] = 0]
    /\ pageNumber' = [pageNumber EXCEPT ![o] = 1]
    /\ after' = [after EXCEPT ![o] = NoCursor]
    /\ edgeCount' = [edgeCount EXCEPT ![o] = 0]
    /\ readAt' = [readAt EXCEPT ![o] = 0]

\* getRows after the loop over repos.Nodes, the page having n edges: return
\* nil, or move the cursor to the next page.  repos goes out of scope.
AfterNodes(o, n) ==
    IF LastPage(n)
    THEN Return(o, NoError)
    ELSE /\ fpc' = [fpc EXCEPT ![o] = "request"]
         /\ edgeCount' = [edgeCount EXCEPT ![o] = 0]
         /\ after' = [after EXCEPT ![o] = OverwriteCursor(@, Edges(pageNumber[o], n), 1, n)]
         /\ pageNumber' = [pageNumber EXCEPT ![o] = @ + 1]
         /\ readAt' = [readAt EXCEPT ![o] = 0]
         /\ UNCHANGED <<now, err>>

\* case row := <-rowCh: the rendezvous with fetcher o's rowCh <- row.
RecvRow(o) ==
    /\ cpc = "drain"
    /\ DrainCond(done)
    /\ fpc[o] = "send"
    /\ rows' = Append(rows, MakeRow(o, Head(pending[o])))
    /\ pending' = [pending EXCEPT ![o] = Tail(@)]
    /\ fpc' = [fpc EXCEPT ![o] = IF RangeDone(Tail(pending[o])) THEN "edges" ELSE "send"]
    /\ UNCHANGED <<token, calls, clock, cpc, spawned, done, idx, label, out, summary, buckets,
                   now, pageNumber, after, edgeCount, err, requested, received, produced,
                   readAt>>

\* case <-doneCh: the rendezvous with fetcher o's doneCh <- true.
RecvDone(o) ==
    /\ cpc = "drain"
    /\ DrainCond(done)
    /\ fpc[o] = "returned"
    /\ done' = done + 1
    /\ fpc' = [fpc EXCEPT ![o] = "exit"]
    /\ UNCHANGED <<token, calls, clock, cpc, spawned, rows, idx, label, out, summary, buckets,
                   now, pageNumber, after, pending, edgeCount, err, requested,
                   received, produced, readAt>>

\* The drain loop ends; "Found %d open pull requests"; sort.Slice(rows, ...)
SortRows ==
    /\ cpc = "drain"
    /\ ~DrainCond(done)
    /\ \E t \in SortSlice(rows) : rows' = t
    /\ out' = Append(out, Line("found", "", Len(rows), NoRow))
    /\ idx' = 1
    /\ cpc' = "print"
    /\ UNCHANGED <<token, calls, clock, spawned, done, label, summary, buckets, fetcherVars>>

\* for _, p := range rows { label := getBucketLabel(p.Age); ... }
PrintRow ==
    /\ cpc = "print"
    /\ idx <= Len(rows)
    /\ LET p == rows[idx]
           r == getBucketLabel(buckets, p.age)
           line == Line("row", "", Days(p.age), p)
       IN  /\ buckets' = r.buckets
           /\ label' = r.label
           /\ out' = IF r.label # ""
                     THEN out \o << Line("label", r.label, 0, NoRow), line >>
                     ELSE Append(out, line)
    /\ idx' = idx + 1
    /\ UNCHANGED <<token, calls, clock, cpc, spawned, rows, done, summary, fetcherVars>>

\* "Summary of %d PRs", one line per bucket, "Newer than %s: %d"
Summary ==
    /\ cpc = "print"
    /\ idx > Len(rows)
    /\ LET count == SumCounts(buckets, 1)
       IN  summary' = [printed |-> TRUE,
                       total |-> Len(rows),
                       counts |-> [i \in 1..Len(buckets) |-> buckets[i].count],
                       newer |-> Len(rows) - count]
    /\ cpc' = "done"
    /\ UNCHANGED <<token, calls, clock, spawned, rows, done, idx, label, out, buckets,
                   fetcherVars>>

----------------------------------------------------------------------------
(* getRows. *)

\* now := time.Now()
StartFetcher(o) ==
    /\ fpc[o] = "start"
    /\ now' = [now EXCEPT ![o] = clock]
    /\ fpc' = [fpc EXCEPT ![o] = "request"]
    /\ UNCHANGED <<token, calls, clock, collectorVars, pageNumber, after, pending, edgeCount,
                   err, requested, received, produced, readAt>>

\* One turn of the loop up to the first send: the request, the checks of the
\* response, and the page's nodes.
FetchPage(o) ==
    /\ fpc[o] = "request"
    /\ requested' = [requested EXCEPT ![o] = @ + 1]
    /\ \E resp \in Responses(MaxRows - Served(produced, Orgs), pageNumber[o] < MaxPages) :
         /\ received' = [received EXCEPT ![o] = resp.kind]
         /\ produced' = [produced EXCEPT ![o] =
                            @ \o IF resp.kind = "ok" THEN Flatten(resp.nodes) ELSE << >>]
         /\ IF FirstError(resp) # NoError
            THEN /\ Return(o, FirstError(resp))
                 /\ UNCHANGED pending
            ELSE /\ pending' = [pending EXCEPT ![o] = Flatten(resp.nodes)]
                 /\ edgeCount' = [edgeCount EXCEPT ![o] = resp.edges]
                 /\ readAt' = [readAt EXCEPT ![o] = clock]
                 /\ fpc' = [fpc EXCEPT ![o] =
                               IF RangeDone(Flatten(resp.nodes)) THEN "edges" ELSE "send"]
                 /\ UNCHANGED <<after, pageNumber, now, err>>
    /\ UNCHANGED <<token, calls, clock, collectorVars>>

\* The loop over repos.Nodes is over: the edge count decides.
EndPage(o) ==
    /\ fpc[o] = "edges"
    /\ AfterNodes(o, edgeCount[o])
    /\ UNCHANGED <<token, calls, clock, collectorVars, pending, requested, received, produced>>

----------------------------------------------------------------------------

Next ==
    \/ Tick
    \/ CheckToken
    \/ Spawn
    \/ SortRows
    \/ PrintRow
    \/ Summary
    \/ \E o \in Orgs : StartFetcher(o)
    \/ \E o \in Orgs : FetchPage(o)
    \/ \E o \in Orgs : EndPage(o)
    \/ \E o \in Orgs : RecvRow(o)
    \/ \E o \in Orgs : RecvDone(o)

Spec == Init /\ [][Next]_vars

\* The Go scheduler runs every runnable goroutine, and a channel operation
\* with a ready partner completes.
Fairness ==
    /\ WF_vars(CheckToken \/ Spawn \/ SortRows \/ PrintRow \/ Summary)
    /\ \A o \in Orgs : /\ WF_vars(StartFetcher(o))
                       /\ WF_vars(FetchPage(o))
                       /\ WF_vars(EndPage(o))
                       /\ WF_vars(RecvRow(o))
                       /\ WF_vars(RecvDone(o))

FairSpec == Spec /\ Fairness

----------------------------------------------------------------------------
(* FindOrgPulls called again in the same process, after it has returned:   *)
(* the locals of the call before are gone, the package-level buckets stay. *)

Call ==
    /\ cpc = "done"
    /\ calls < MaxCalls
    /\ calls' = calls + 1
    /\ cpc' = "start"
    /\ spawned' = 0
    /\ rows' = << >>
    /\ done' = 0
    /\ idx' = 1
    /\ label' = ""
    /\ out' = << >>
    /\ summary' = NoSummary
    /\ fpc' = [o \in Orgs |-> "idle"]
    /\ now' = [o \in Orgs |-> 0]
    /\ pageNumber' = [o \in Orgs |-> 1]
    /\ after' = [o \in Orgs |-> NoCursor]
    /\ pending' = [o \in Orgs |-> << >>]
    /\ edgeCount' = [o \in Orgs |-> 0]
    /\ err' = [o \in Orgs |-> NoError]
    /\ requested' = [o \in Orgs |-> 0]
    /\ received' = [o \in Orgs |-> "none"]
    /\ produced' = [o \in Orgs |-> << >>]
    /\ readAt' = [o \in Orgs |-> 0]
    /\ UNCHANGED <<token, clock, buckets>>

RerunNext == Next \/ Call

RerunSpec == Init /\ [][RerunNext]_vars


----------------------------------------------------------------------------
(* The report on its own: the rows are any list the drain loop can end     *)
(* with, all served by the first organization in one page and aged         *)
(* against Now0; their ages lie on, and one second past, every threshold.  *)

Thresholds == { InitBuckets[i].olderThan : i \in 1..Len(InitBuckets) }

ReportCreatedAt ==
    { Now0 - T : T \in Thresholds } \cup { Now0 - T - Second : T \in Thresholds }
    \cup { Now0 - 365 * Day - Second + 1, Now0 - 3 * Day }

ReportRows ==
    { [org |-> orgNames[1], createdDate |-> c, age |-> Sub(Now0, c)] : c \in ReportCreatedAt }

ReportInit ==
    /\ token = "secret"
    /\ clock = Now0
    /\ cpc = "drain"
    /\ spawned = Len(orgNames)
    /\ rows \in SeqsUpTo(ReportRows, MaxReportRows)
    /\ done = Len(orgNames)
    /\ idx = 1
    /\ label = ""
    /\ out = << >>
    /\ summary = NoSummary
    /\ buckets = InitBuckets
    /\ fpc = [o \in Orgs |-> "exit"]
    /\ now = [o \in Orgs |-> 0]
    /\ pageNumber = [o \in Orgs |-> 1]
    /\ after = [o \in Orgs |-> NoCursor]
    /\ pending = [o \in Orgs |-> << >>]
    /\ edgeCount = [o \in Orgs |-> 0]
    /\ err = [o \in Orgs |-> NoError]
    /\ requested = [o \in Orgs |-> 1]
    /\ received = [o \in Orgs |-> "ok"]
    /\ produced = [o \in Orgs |->
                       IF o = orgNames[1]
                       THEN [i \in 1..Len(rows) |-> rows[i].createdDate]
                       ELSE << >>]
    /\ readAt = [o \in Orgs |-> 0]
    /\ calls = 1

ReportNext == SortRows \/ PrintRow \/ Summary

ReportSpec == ReportInit /\ [][ReportNext]_vars


----------------------------------------------------------------------------
(* Properties. *)

\* createdDate of the rows of organization o, in the order of the list.
CreatedOf(rs, o) ==
    LET own == SelectSeq(rs, LAMBDA r : r.org = o)
    IN  [ i \in 1..Len(own) |-> own[i].createdDate ]

\* How often v occurs in the sequence q.
Occurrences(q, v) == Cardinality({ i \in 1..Len(q) : q[i] = v })

\* The sequences q and r hold the same values, each as often.
SameBag(q, r) ==
    /\ Len(q) = Len(r)
    /\ \A i \in 1..Len(q) : Occurrences(q, q[i]) = Occurrences(r, q[i])

Failed(o) == received[o] \in FailureKinds

DrainExited == cpc = "drain" /\ ~DrainCond(done)

Reporting == token # "" /\ cpc \in { "print", "done" }

\* C1: when no fetcher fails, the list the collector holds when its drain
\* loop exits is, organization by organization, exactly the records that
\* organization's fetcher was served and sent, in the order sent, and its
\* length is the sum over the organizations.
C1_NoLossNoDuplication ==
    (DrainExited /\ \A o \in Orgs : ~Failed(o))
        => /\ \A o \in Orgs : CreatedOf(rows, o) = produced[o]
           /\ Len(rows) = Served(produced, Orgs)

\* A drain loop that exits holding one record of each organization, the
\* second organization's having arrived first.
C1_Witness ==
    /\ DrainExited
    /\ \A o \in Orgs : ~Failed(o)
    /\ Len(rows) = 2
    /\ rows[1].org = orgNames[2]
    /\ rows[2].org = orgNames[1]

Terminated ==
    /\ cpc = "done"
    /\ summary.printed
    /\ \A o \in Orgs : fpc[o] = "exit"

\* C2: under fair scheduling the run terminates: every fetcher sends its
\* done signal, the drain loop exits and the summary is printed; and a
\* fetcher blocked on a record send or a done send always has the collector
\* still receiving.
C2_Terminates ==
    /\ [](\A o \in Orgs : fpc[o] \in { "send", "returned" }
            => cpc \in { "spawn", "drain" } /\ DrainCond(done))
    /\ (token # "") ~> Terminated

C2_Witness ==
    /\ Terminated
    /\ done = Len(orgNames)
    /\ Len(rows) = MaxRows
    /\ \A o \in Orgs : requested[o] = MaxPages


\* The row lines printed so far, in the order printed.
PrintedRows == SelectSeq(out, LAMBDA l : l.kind = "row")

\* C3: the pull-request lines are printed in non-decreasing order of
\* creation timestamp.
C3_PrintedInCreationOrder ==
    \A i \in 1..Len(PrintedRows) : \A j \in 1..Len(PrintedRows) :
        i < j => PrintedRows[i].row.createdDate <= PrintedRows[j].row.createdDate

\* The bucket an age belongs to: the first threshold, oldest first, that
\* the age is strictly greater than; 0 when it exceeds none.
BucketOf(age) ==
    IF \E i \in 1..Len(InitBuckets) : age > InitBuckets[i].olderThan
    THEN CHOOSE i \in 1..Len(InitBuckets) :
            /\ age > InitBuckets[i].olderThan
            /\ \A j \in 1..(i - 1) : age <= InitBuckets[j].olderThan
    ELSE 0

RECURSIVE SumSeq(_)
SumSeq(q) == IF q = << >> THEN 0 ELSE Head(q) + SumSeq(Tail(q))

\* C4: at the end of a run the five bucket counts and the "Newer than one
\* week" remainder add up to the number of collected records, and the
\* remainder is the number of records whose age exceeds no threshold.
C4_CountsAddUp ==
    (cpc = "done" /\ summary.printed)
        => /\ summary.total = Len(rows)
           /\ Len(summary.counts) = 5
           /\ SumSeq(summary.counts) + summary.newer = Len(rows)
           /\ summary.newer = Cardinality({ i \in 1..Len(rows) : BucketOf(rows[i].age) = 0 })
           /\ summary.newer >= 0
           /\ \A b \in 1..5 :
                summary.counts[b] = Cardinality({ i \in 1..Len(rows) : BucketOf(rows[i].age) = b })

\* A summary with a record in a bucket, a record exactly one week old and a
\* record three days old.
C4_Witness ==
    /\ cpc = "done"
    /\ summary.printed
    /\ summary.total = 3
    /\ summary.newer = 2
    /\ \E i \in 1..Len(rows) : rows[i].age = 7 * Day
    /\ \E i \in 1..Len(rows) : rows[i].age = 3 * Day

LabelOf(b) == "Older than " \o InitBuckets[b].label

\* C9: a bucket's label is printed at most once, immediately before the
\* line of the first record counted in that bucket and before no other
\* line; later records of the bucket, and records of no bucket, get none.
C9_LabelOncePerBucket ==
    /\ \A k \in 1..Len(out) :
         out[k].kind = "label"
            => /\ k < Len(out)
               /\ out[k + 1].kind = "row"
               /\ BucketOf(out[k + 1].row.age) # 0
               /\ out[k].text = LabelOf(BucketOf(out[k + 1].row.age))
    /\ \A k \in 1..Len(out) :
         out[k].kind = "row"
            => LET b == BucketOf(out[k].row.age)
                   first == b # 0 /\ \A j \in 1..(k - 1) :
                                        out[j].kind = "row" => BucketOf(out[j].row.age) # b
               IN  IF first
                   THEN k > 1 /\ out[k - 1].kind = "label"
                   ELSE k > 1 /\ out[k - 1].kind # "label"
    /\ \A k \in 1..Len(out) : \A j \in 1..Len(out) :
         (out[k].kind = "label" /\ out[j].kind = "label" /\ out[k].text = out[j].text) => k = j

\* Three records of one bucket printed: one label, then three lines.
C9_Witness ==
    /\ cpc = "done"
    /\ Len(PrintedRows) = 3
    /\ \A i \in 1..3 : BucketOf(PrintedRows[i].row.age) = 2
    /\ Cardinality({ k \in 1..Len(out) : out[k].kind = "label" }) = 1

\* C10: a threshold is exceeded only by a strictly greater age: a call of
\* getBucketLabel with an age equal to a threshold T leaves T's bucket as
\* it was and does not return T's label; with the age T + 1 second it
\* increments T's counter, sets T's found flag, and returns T's label
\* unless the bucket had been found before.
C10_StrictThreshold ==
    [][ (cpc = "print" /\ idx' = idx + 1)
          => LET age == rows[idx].age
             IN  \A b \in 1..Len(InitBuckets) :
                   LET T == InitBuckets[b].olderThan
                   IN  /\ age = T => /\ buckets'[b] = buckets[b]
                                     /\ label' # LabelOf(b)
                       /\ age = T + Second
                            => /\ buckets'[b].count = buckets[b].count + 1
                               /\ buckets'[b].found
                               /\ (label' = LabelOf(b)) <=> ~buckets[b].found
      ]_vars

\* Printed: a record exactly 365 days old, counted under six months, and a
\* record of 365 days and one second, counted under one year.
C10_Witness ==
    /\ cpc = "done"
    /\ \E i \in 1..Len(rows) : rows[i].age = 365 * Day
    /\ \E i \in 1..Len(rows) : rows[i].age = 365 * Day + Second
    /\ buckets[1].count = 1
    /\ buckets[2].count = 1


StopKinds == { "status", "graphql" }

\* C5: a fetcher that receives a non-200 status, or a 200 response with a
\* populated error list, stops at once: it has returned that one error, it
\* issues no further request and sends no further record, and its goroutine
\* sends one done signal, once.
C5_StopsOnError ==
    /\ [](\A o \in Orgs : received[o] \in StopKinds
            => /\ fpc[o] \in { "returned", "exit" }
               /\ err[o] = received[o]
               /\ pending[o] = << >>)
    /\ [][\A o \in Orgs : received[o] \in StopKinds
            => /\ requested'[o] = requested[o]
               /\ received'[o] = received[o]
               /\ Len(CreatedOf(rows', o)) = Len(CreatedOf(rows, o))
               /\ (fpc[o] = "exit" => fpc'[o] = "exit")
               /\ (fpc'[o] # fpc[o] => fpc'[o] = "exit" /\ done' = done + 1)]_vars
    /\ [](done = Cardinality({ o \in Orgs : fpc[o] = "exit" }))
    /\ \A o \in Orgs : (received[o] \in StopKinds) ~> (fpc[o] = "exit")

\* One fetcher stopped by a GraphQL error on its second page, the other by
\* a non-200 status, both done.
C5_Witness ==
    /\ received[orgNames[1]] = "graphql"
    /\ requested[orgNames[1]] = 2
    /\ Len(CreatedOf(rows, orgNames[1])) = 1
    /\ received[orgNames[2]] = "status"
    /\ \A o \in Orgs : fpc[o] = "exit"

\* C6 as stated: an organization whose fetcher fails, on whatever page,
\* has no record in the list the report is printed from.
C6_FailedOrgContributesNothing ==
    Reporting => \A o \in Orgs : Failed(o) => CreatedOf(rows, o) = << >>

\* C6, amended: an organization whose fetcher fails contributes exactly the
\* records of the pages it read before the failing one, none of the failing
\* page, and so none at all when its first page fails.
C6_FailedOrgKeepsEarlierPages ==
    Reporting => \A o \in Orgs : Failed(o)
        => /\ SameBag(CreatedOf(rows, o), produced[o])
           /\ requested[o] = 1 => CreatedOf(rows, o) = << >>

\* A report holding a record of an organization whose second page failed.
C6_Witness ==
    /\ Reporting
    /\ \E o \in Orgs : /\ Failed(o)
                       /\ requested[o] = 2
                       /\ Len(CreatedOf(rows, o)) >= 1

\* C7: when some fetchers fail the collector still terminates and prints
\* the report, every fetcher has sent its done signal by then, and the
\* report holds every record served to the organizations that succeeded.
C7_PartialFailure ==
    /\ []((token # "" /\ cpc = "done")
            => \A o \in Orgs : /\ fpc[o] = "exit"
                               /\ ~Failed(o) => SameBag(CreatedOf(rows, o), produced[o]))
    /\ (\E o \in Orgs : Failed(o)) ~> (cpc = "done" /\ summary.printed)
    /\ \A o \in Orgs :
         ((\E q \in Orgs \ {o} : Failed(q)) /\ fpc[o] \in { "send", "returned" })
            ~> (fpc[o] = "exit")

\* The first organization failed on its second page; the second succeeded
\* and its record is in the finished report.
C7_Witness ==
    /\ cpc = "done"
    /\ summary.printed
    /\ Failed(orgNames[1])
    /\ requested[orgNames[1]] = 2
    /\ received[orgNames[2]] = "ok"
    /\ Len(CreatedOf(rows, orgNames[2])) >= 1

\* A step of fetcher o that leaves the check of the edge count.
LeavesEdges(o) == fpc[o] = "edges" /\ fpc'[o] # "edges"

PrintCall == cpc = "print" /\ idx' = idx + 1

\* C11 as stated: a record whose age equals a threshold is counted in the
\* bucket next to that threshold on the older side.
C11_EqualAgeInNextOlder ==
    [][ PrintCall
          => \A b \in 2..Len(InitBuckets) :
                rows[idx].age = InitBuckets[b].olderThan
                    => buckets'[b - 1].count = buckets[b - 1].count + 1
      ]_vars

\* C11, amended: a record whose age equals a threshold is counted in the
\* bucket next to that threshold on the newer side and in no other; an age
\* equal to the smallest threshold is counted in no bucket.
C11_EqualAgeInNextNewer ==
    [][ PrintCall
          => \A b \in 1..Len(InitBuckets) :
                rows[idx].age = InitBuckets[b].olderThan
                    => /\ \A j \in 1..Len(InitBuckets) :
                            buckets'[j].count = buckets[j].count + (IF j = b + 1 THEN 1 ELSE 0)
                       /\ b = Len(InitBuckets) => buckets' = buckets /\ label' = ""
      ]_vars

\* Printed: a record exactly 180 days old, counted under three months, and
\* a record exactly 7 days old, counted nowhere.
C11_Witness ==
    /\ cpc = "done"
    /\ Len(rows) = 2
    /\ \E i \in 1..Len(rows) : rows[i].age = 6 * 30 * Day
    /\ \E i \in 1..Len(rows) : rows[i].age = 7 * Day
    /\ \A j \in 1..Len(InitBuckets) : buckets[j].count = IF j = 3 THEN 1 ELSE 0
    /\ summary.newer = 1

\* C12: with the token missing the program prints its message and returns
\* before any fetch: no goroutine is started, no request is made, no record
\* and no done signal is received, and no report or summary is printed.
C12_NoTokenNoFetch ==
    token = ""
        => /\ cpc \in { "start", "done" }
           /\ spawned = 0
           /\ \A o \in Orgs : /\ fpc[o] = "idle"
                              /\ requested[o] = 0
                              /\ received[o] = "none"
                              /\ pending[o] = << >>
           /\ rows = << >>
           /\ done = 0
           /\ ~summary.printed
           /\ buckets = InitBuckets
           /\ out = IF cpc = "start"
                    THEN << >>
                    ELSE << Line("message", "Failed to get github token", 0, NoRow) >>

\* The program has returned on a missing token, the message printed.
C12_Witness ==
    /\ token = ""
    /\ cpc = "done"
    /\ Len(out) = 1
    /\ out[1].kind = "message"

\* Records fetcher o has put on rowCh that the collector has not appended:
\* the record of the send it is blocked in, if any.
InFlight(o) ==
    (Len(produced[o]) - Len(pending[o]) + (IF fpc[o] = "send" THEN 1 ELSE 0))
        - Len(CreatedOf(rows, o))

\* C13: a fetcher's done signal is received only after every record it sent
\* is in the collector's list: each fetcher has at most one record sent and
\* not yet received, none once it has returned, and at the receipt of its
\* done signal the list holds every record it was served.
C13_DoneAfterRecords ==
    /\ [](\A o \in Orgs :
            /\ cpc = "drain" => CreatedOf(rows, o) \o pending[o] = produced[o]
            /\ InFlight(o) \in { 0, 1 }
            /\ InFlight(o) = 1 <=> pending[o] # << >>
            /\ fpc[o] \in { "returned", "exit" }
                 => InFlight(o) = 0 /\ SameBag(CreatedOf(rows, o), produced[o]))
    /\ [][\A o \in Orgs :
            (fpc[o] # "exit" /\ fpc'[o] = "exit")
                => /\ done' = done + 1
                   /\ rows' = rows
                   /\ CreatedOf(rows, o) = produced[o]
                   /\ InFlight(o) = 0]_vars

\* The first fetcher's done signal is in, its two records of two pages in
\* the list, while the second fetcher has not returned.
C13_Witness ==
    /\ fpc[orgNames[1]] = "exit"
    /\ done = 1
    /\ requested[orgNames[1]] = 2
    /\ Len(CreatedOf(rows, orgNames[1])) = 2
    /\ fpc[orgNames[2]] = "edges"

\* Some fetcher goroutine has not got its done signal through.
StillRunning == \E o \in Orgs : fpc[o] # "exit"

\* C14: the sort, the writes of the bucket counters and the printing of the
\* report happen only once the collector has received one done signal per
\* organization, with no fetcher still running; while a fetcher has not
\* completed, a hung one included, the done count stays below the number of
\* organizations and no line of the report and no summary is printed.
C14_ReportAfterAllDone ==
    /\ [](token # ""
            => /\ done <= Len(orgNames)
               /\ StillRunning
                    => /\ done < Len(orgNames)
                       /\ cpc \in { "start", "spawn", "drain" }
                       /\ out = << >>
                       /\ ~summary.printed
                       /\ buckets = InitBuckets
               /\ cpc \in { "print", "done" }
                    => done = Len(orgNames) /\ ~StillRunning)
    /\ [][(buckets' # buckets \/ out' # out \/ summary' # summary \/ idx' # idx)
            => \/ token = "" /\ cpc = "start"
               \/ /\ done = Len(orgNames)
                  /\ ~StillRunning
                  /\ UNCHANGED <<done, fetcherVars>>]_vars

\* One fetcher is done and both records are in the list, while the other
\* fetcher's second request has not come back: nothing is printed.
C14_Witness ==
    /\ cpc = "drain"
    /\ done = Len(orgNames) - 1
    /\ Len(rows) = MaxRows
    /\ fpc[orgNames[2]] = "request"
    /\ pageNumber[orgNames[2]] = 2
    /\ out = << >>

\* C15: a call of getBucketLabel increments at most one counter, that of
\* the first threshold, oldest first, the age strictly exceeds, which is the
\* largest threshold below the age; every other bucket keeps its counter and
\* its found flag; an age exceeding no threshold changes no bucket and
\* returns no label.
C15_OneCounterPerCall ==
    [][ PrintCall
          => LET age == rows[idx].age
                 b == BucketOf(age)
             IN  IF b = 0
                 THEN /\ \A j \in 1..Len(InitBuckets) : age <= InitBuckets[j].olderThan
                      /\ buckets' = buckets
                      /\ label' = ""
                 ELSE /\ InitBuckets[b].olderThan < age
                      /\ \A j \in 1..Len(InitBuckets) :
                            InitBuckets[j].olderThan < age
                                => InitBuckets[j].olderThan <= InitBuckets[b].olderThan
                      /\ buckets'[b] = [buckets[b] EXCEPT !.count = @ + 1, !.found = TRUE]
                      /\ \A j \in 1..Len(InitBuckets) : j # b => buckets'[j] = buckets[j]
      ]_vars

\* Printed: a record of 365 days and one second, which exceeds all five
\* thresholds and is counted under one year alone, and a record of three
\* days, counted nowhere.
C15_Witness ==
    /\ cpc = "done"
    /\ Len(rows) = 2
    /\ \E i \in 1..Len(rows) : rows[i].age = 365 * Day + Second
    /\ \E i \in 1..Len(rows) : rows[i].age = 3 * Day
    /\ \A j \in 1..Len(InitBuckets) : buckets[j].count = IF j = 1 THEN 1 ELSE 0
    /\ \A j \in 1..Len(InitBuckets) : buckets[j].found <=> j = 1

\* The label lines printed so far, in the order printed.
PrintedLabels == SelectSeq(out, LAMBDA l : l.kind = "label")

\* The bucket a label line names.
LabelBucket(text) == CHOOSE b \in 1..Len(InitBuckets) : LabelOf(b) = text

\* The labels getBucketLabel returns for the ages of q, called in order
\* starting from the buckets bs.
RECURSIVE LabelsFor(_, _)
LabelsFor(bs, q) ==
    IF q = << >> THEN << >>
    ELSE LET r == getBucketLabel(bs, Head(q))
         IN  (IF r.label = "" THEN << >> ELSE << r.label >>) \o LabelsFor(r.buckets, Tail(q))

\* C16: in one run the labels come out oldest first: no label of a larger
\* threshold is printed after a label of a smaller one, each record's age
\* being the one its own fetcher gave it; a bucket no record falls into gets
\* no label; and the ages 400, 200, 40, 10 and 3 days give the labels of one
\* year, six months, one month and one week, in that order.
C16_LabelsOldestFirst ==
    /\ \A k \in 1..Len(PrintedLabels) : \A j \in 1..Len(PrintedLabels) :
         k < j => LabelBucket(PrintedLabels[k].text) < LabelBucket(PrintedLabels[j].text)
    /\ \A k \in 1..Len(PrintedLabels) :
         \E i \in 1..Len(rows) : BucketOf(rows[i].age) = LabelBucket(PrintedLabels[k].text)
    /\ LabelsFor(InitBuckets, << 400 * Day, 200 * Day, 40 * Day, 10 * Day, 3 * Day >>)
          = << "Older than one year", "Older than six months",
               "Older than one month", "Older than one week" >>

\* The collector receives a record of fetcher o in this step.
Receives(o) == rows' # rows /\ fpc[o] = "send" /\ pending'[o] # pending[o]

\* C17 as stated: a record is aged against the time at which the page it
\* was read from was processed.
C17_AgedAtPageRead ==
    [][\A o \in Orgs :
          Receives(o)
            => rows'[Len(rows')].age = readAt[o] - rows'[Len(rows')].createdDate]_vars

\* C17, amended: a record is aged against the time its fetcher read once,
\* on entry to getRows before its first request; that time stays as it is
\* through all the pages, so the records of every page of one fetcher are
\* aged against the same instant, not later than the reading of any page.
C17_AgedAtFetcherStart ==
    /\ [][\A o \in Orgs :
            /\ Receives(o)
                 => /\ rows'[Len(rows')].org = o
                    /\ rows'[Len(rows')].age = now[o] - rows'[Len(rows')].createdDate
            /\ fpc[o] = "start" /\ fpc'[o] # "start" => now'[o] = clock
            /\ fpc[o] \in { "request", "send", "edges" }
                 /\ fpc'[o] \in { "request", "send", "edges" } => now'[o] = now[o]]_vars
    /\ [](\A o \in Orgs : fpc[o] \in { "send", "edges" } => now[o] <= readAt[o])

\* A record of a fetcher's second page is in the list, aged against the
\* time the fetcher started, the page having been read a tick later.
C17_Witness ==
    \E o \in Orgs :
        /\ fpc[o] = "edges"
        /\ pageNumber[o] = 2
        /\ now[o] = Now0
        /\ readAt[o] = Now0 + 1
        /\ rows # << >>
        /\ rows[Len(rows)].org = o
        /\ rows[Len(rows)].age = Now0 - rows[Len(rows)].createdDate
        /\ Len(produced[o]) = 1

\* The cursor the request for page k carries: none for the first page, the
\* cursor of the last edge of page k - 1 for a later one.
CursorFor(k) ==
    IF k = 1 THEN NoCursor ELSE Edges(k - 1, PageSize)[PageSize].cursor

\* Fetcher o makes a request in this step.
Requests(o) == requested'[o] = requested[o] + 1

\* C18: the first request of a fetcher carries no cursor, and the request
\* for page k + 1 carries the cursor of the last edge of page k, of no other
\* edge and of no older page; the cursor changes only at the end of a full
\* page, and then to a page further on.
C18_CursorOfLastEdge ==
    /\ [](\A o \in Orgs :
            fpc[o] \in { "request", "send", "edges" } => after[o] = CursorFor(pageNumber[o]))
    /\ [][\A o \in Orgs :
            /\ Requests(o)
                 => /\ requested'[o] = pageNumber[o]
                    /\ after[o] = CursorFor(requested'[o])
                    /\ requested'[o] = 1 <=> after[o] = NoCursor
            /\ (after'[o] # after[o] /\ fpc'[o] # "returned")
                 => /\ fpc[o] = "edges"
                    /\ edgeCount[o] = PageSize
                    /\ after'[o] = << pageNumber[o], PageSize >>
                    /\ after[o] # NoCursor => after[o][1] < after'[o][1]]_vars

\* The second request of a fetcher has been made with the cursor of the
\* hundredth edge of its first page.
C18_Witness ==
    \E o \in Orgs :
        /\ requested[o] = 2
        /\ fpc[o] = "send"
        /\ after[o] = << 1, PageSize >>

\* The label of bucket b is among the lines printed.
LabelPrinted(b) == \E k \in 1..Len(out) : out[k].kind = "label" /\ out[k].text = LabelOf(b)

\* C19: throughout the print pass and at the summary, a bucket's found flag
\* is set exactly when its count is above zero, and its label has been
\* printed exactly then; so the summary reports a count above zero for
\* exactly the buckets whose label was printed.
C19_FoundIffCounted ==
    /\ \A b \in 1..Len(buckets) :
         /\ buckets[b].count >= 0
         /\ buckets[b].found <=> buckets[b].count > 0
         /\ LabelPrinted(b) <=> buckets[b].count > 0
    /\ summary.printed
         => \A b \in 1..Len(buckets) : LabelPrinted(b) <=> summary.counts[b] > 0

\* A summary with two records counted under one month, whose label was
\* printed, and nothing under the other buckets.
C19_Witness ==
    /\ summary.printed
    /\ summary.counts[4] = 2
    /\ buckets[4].found
    /\ LabelPrinted(4)
    /\ \A b \in { 1, 2, 3, 5 } : ~buckets[b].found /\ ~LabelPrinted(b)
    /\ summary.total = 3

\* The rows of the call under way that belong to bucket b; to no bucket
\* when b is 0.
OwnCount(b) == Cardinality({ i \in 1..Len(rows) : BucketOf(rows[i].age) = b })

\* C20: every call of FindOrgPulls in a process gives a report of its own:
\* its print pass starts with all counts at zero and all found flags
\* cleared, and its counts, its labels and its remainder are those of the
\* records that call collected.
C20_IndependentReports ==
    /\ (cpc = "print" /\ idx = 1) => buckets = InitBuckets
    /\ summary.printed
         => /\ \A b \in 1..Len(buckets) :
                 /\ summary.counts[b] = OwnCount(b)
                 /\ LabelPrinted(b) <=> OwnCount(b) > 0
            /\ summary.newer = OwnCount(0)

=============================================================================
